---- MODULE Spec2Model ----
(***************************************************************************)
(* Model of cargo-geiger/src/format/print_config.rs: the OutputFormat      *)
(* parser, PrintConfig::new, PrintConfig::default and colorize.            *)
(*                                                                         *)
(* Strings are sequences of one-character strings, so that matching,      *)
(* case and whitespace are visible to the model.  Every function of the    *)
(* file is pure; a behaviour is one call: Init draws the function and its  *)
(* arguments, the function's action computes the returned value.           *)
(***************************************************************************)
EXTENDS Naturals, Sequences, FiniteSets

VARIABLES call, pc, ret

vars == <<call, pc, ret>>

(***************************************************************************)
(* Bounds of the explored inputs.                                          *)
(***************************************************************************)
\* longest template drawn character by character (braces included)
MaxTemplateLen == 4
\* most items (a literal character or a delimited token) in a drawn template
MaxItems == 3
\* most spaces put before or after a format name
MaxPad == 1
\* longest text handed to colorize
MaxTextLen == 2

(***************************************************************************)
(* Helpers on character sequences.                                         *)
(***************************************************************************)
SeqsUpTo(S, n) == UNION {[1..k -> S] : k \in 0..n}

RECURSIVE Concat(_)
Concat(ss) == IF ss = <<>> THEN <<>> ELSE Head(ss) \o Concat(Tail(ss))

RECURSIVE Spaces(_)
Spaces(n) == IF n = 0 THEN <<>> ELSE <<" ">> \o Spaces(n - 1)

\* u occurs in s as a contiguous run of characters
Contains(s, u) ==
    \E i \in 1..(Len(s) + 1) :
        /\ i + Len(u) - 1 <= Len(s)
        /\ SubSeq(s, i, i + Len(u) - 1) = u

(***************************************************************************)
(* enum OutputFormat and its FromStr implementation.                       *)
(***************************************************************************)
OutputFormat == {"Ascii", "Json", "GitHubMarkdown", "Ratio", "Utf8"}

\* the identifier of each member, as the enum declares it
VariantName(v) ==
    CASE v = "Ascii" -> <<"A", "s", "c", "i", "i">>
      [] v = "Json" -> <<"J", "s", "o", "n">>
      [] v = "GitHubMarkdown" ->
            <<"G", "i", "t", "H", "u", "b", "M", "a", "r", "k", "d", "o", "w", "n">>
      [] v = "Ratio" -> <<"R", "a", "t", "i", "o">>
      [] v = "Utf8" -> <<"U", "t", "f", "8">>

OutputFormat_default == "Utf8"

OutputFormatParseError == [ok |-> FALSE, err |-> "OutputFormatParseError"]

OkFormat(v) == [ok |-> TRUE, value |-> v]

\* a parser that folds case before matching
from_str_IgnoreCase(s) ==
    LET Fold(c) == CASE c = "A" -> "a" [] c = "J" -> "j" [] c = "G" -> "g"
                     [] c = "H" -> "h" [] c = "M" -> "m" [] c = "R" -> "r"
                     [] c = "U" -> "u" [] OTHER -> c
        F(x) == [k \in 1..Len(x) |-> Fold(x[k])]
    IN  IF \E v \in OutputFormat : F(VariantName(v)) = F(s)
        THEN OkFormat(CHOOSE v \in OutputFormat : F(VariantName(v)) = F(s))
        ELSE OutputFormatParseError

\* the match of from_str, arm by arm
from_str(s) ==
    CASE s = <<"A", "s", "c", "i", "i">> -> OkFormat("Ascii")
      [] s = <<"J", "s", "o", "n">> -> OkFormat("Json")
      [] s = <<"G", "i", "t", "H", "u", "b", "M", "a", "r", "k", "d", "o", "w", "n">> ->
            OkFormat("GitHubMarkdown")
      [] s = <<"R", "a", "t", "i", "o">> -> OkFormat("Ratio")
      [] s = <<"U", "t", "f", "8">> -> OkFormat("Utf8")
      [] OTHER -> OutputFormatParseError

\* Display of OutputFormatParseError
OutputFormatParseError_fmt == "matching output format not found"

(***************************************************************************)
(* Strings handed to from_str: the names, the names with the case of one   *)
(* or of all letters changed, cut short, lengthened, padded with spaces,   *)
(* and the unknown name of the unit test.                                  *)
(***************************************************************************)
UpperChars == <<"A", "C", "I", "S", "J", "O", "N", "G", "T", "H", "U", "B", "M",
                "R", "K", "D", "W", "F">>
LowerChars == <<"a", "c", "i", "s", "j", "o", "n", "g", "t", "h", "u", "b", "m",
                "r", "k", "d", "w", "f">>

ToUpper(c) ==
    IF \E k \in 1..Len(LowerChars) : LowerChars[k] = c
    THEN UpperChars[CHOOSE k \in 1..Len(LowerChars) : LowerChars[k] = c]
    ELSE c

ToLower(c) ==
    IF \E k \in 1..Len(UpperChars) : UpperChars[k] = c
    THEN LowerChars[CHOOSE k \in 1..Len(UpperChars) : UpperChars[k] = c]
    ELSE c

ToggleCase(c) == IF ToLower(c) # c THEN ToLower(c) ELSE ToUpper(c)

UnknownVariant ==
    <<"u", "n", "k", "n", "o", "w", "n", "_", "v", "a", "r", "i", "a", "n", "t">>

NameVariants(n) ==
    {n, [k \in 1..Len(n) |-> ToLower(n[k])], [k \in 1..Len(n) |-> ToUpper(n[k])]}
      \cup {[n EXCEPT ![i] = ToggleCase(n[i])] : i \in 1..Len(n)}
      \cup {SubSeq(n, 1, k) : k \in 0..Len(n)}
      \cup {SubSeq(n, k, Len(n)) : k \in 1..Len(n)}
      \cup {n \o <<c>> : c \in {"s", "8", "_"}}

FromStrInputs ==
    {UnknownVariant}
      \cup UNION {{Spaces(a) \o m \o Spaces(b) : a \in 0..MaxPad, b \in 0..MaxPad,
                                               m \in NameVariants(VariantName(v))}
                  : v \in OutputFormat}

(***************************************************************************)
(* Pattern::try_build (format/pattern.rs): a template is compiled to an    *)
(* ordered sequence of chunks.  "{" opens a placeholder token that runs to *)
(* the next "}"; p, l and r are the known tokens; every other character is *)
(* literal text, and a run of literal text is one Raw chunk.  The scan is  *)
(* left to right and stops at the first bad token.                         *)
(***************************************************************************)
Chunk_Package == [kind |-> "Package", text |-> <<>>]
Chunk_License == [kind |-> "License", text |-> <<>>]
Chunk_Repository == [kind |-> "Repository", text |-> <<>>]
Chunk_Raw(t) == [kind |-> "Raw", text |-> t]

\* the pending literal run, if any, becomes one Raw chunk
Flush(chunks, lit) == IF lit = <<>> THEN chunks ELSE Append(chunks, Chunk_Raw(lit))

\* position of the first "}" at or after i, 0 when there is none
NextClose(t, i) ==
    IF \E j \in i..Len(t) : t[j] = "}"
    THEN CHOOSE j \in i..Len(t) : t[j] = "}" /\ \A k \in i..(j - 1) : t[k] # "}"
    ELSE 0

PatternOk(chunks) == [ok |-> TRUE, chunks |-> chunks]
PatternErr(kind, token) == [ok |-> FALSE, err |-> [kind |-> kind, token |-> token]]

RECURSIVE Scan(_, _, _, _)
Scan(t, i, chunks, lit) ==
    IF i > Len(t) THEN PatternOk(Flush(chunks, lit))
    ELSE IF t[i] = "{" THEN
        LET j == NextClose(t, i + 1) IN
        IF j = 0 THEN PatternErr("unterminated", SubSeq(t, i, Len(t)))
        ELSE LET tok == SubSeq(t, i + 1, j - 1) IN
             CASE tok = <<"p">> -> Scan(t, j + 1, Append(Flush(chunks, lit), Chunk_Package), <<>>)
               [] tok = <<"l">> -> Scan(t, j + 1, Append(Flush(chunks, lit), Chunk_License), <<>>)
               [] tok = <<"r">> -> Scan(t, j + 1, Append(Flush(chunks, lit), Chunk_Repository), <<>>)
               [] OTHER -> PatternErr("unsupported", tok)
    ELSE IF t[i] = "}" THEN PatternErr("unexpected", <<"}">>)
    ELSE Scan(t, i + 1, chunks, Append(lit, t[i]))

try_build(format) == Scan(format, 1, <<>>, <<>>)

\* Display of the pattern error: a description that quotes the bad token
PatternError_to_string(e) ==
    (CASE e.kind = "unsupported" -> <<"u", "n", "s", "u", "p", "p", "o", "r", "t", "e", "d", " ">>
       [] e.kind = "unterminated" -> <<"u", "n", "t", "e", "r", "m", "i", "n", "a", "t", "e", "d", " ">>
       [] OTHER -> <<"u", "n", "e", "x", "p", "e", "c", "t", "e", "d", " ">>)
      \o <<"'">> \o e.token \o <<"'">>

(***************************************************************************)
(* PrintConfig::new and PrintConfig::default.                              *)
(***************************************************************************)
Prefix == {"Depth", "Indent", "None"}
EdgeDirection == {"Outgoing", "Incoming"}
IncludeTests == {"Yes", "No"}

FormatErrorExitCode == 1

FormatError(message) == [message |-> message]

CliError_new(error, code) == [error |-> error, exit_code |-> code]

\* the closure given to map_err
MapErr_DropsMessage(e) == CliError_new(FormatError(<<>>), FormatErrorExitCode)

MapErr(e) == CliError_new(FormatError(PatternError_to_string(e)), FormatErrorExitCode)

NewAllowPartialResults_False == FALSE

NewAllowPartialResults == TRUE

NewDirection_Swapped(args) == IF args.invert THEN "Outgoing" ELSE "Incoming"

NewDirection(args) == IF args.invert THEN "Incoming" ELSE "Outgoing"

NewFormat_Default(args) == try_build(<<"p">>)

NewFormat(args) == try_build(args.format)

NewIncludeTests_AlwaysYes(args) == "Yes"

NewIncludeTests(args) == IF args.include_tests THEN "Yes" ELSE "No"

NewPrefix_NoIndentFirst(args) ==
    CASE args.no_indent -> "None"
      [] args.prefix_depth -> "Depth"
      [] OTHER -> "Indent"

NewPrefix(args) ==
    CASE args.prefix_depth -> "Depth"
      [] ~args.prefix_depth /\ args.no_indent -> "None"
      [] ~args.prefix_depth /\ ~args.no_indent -> "Indent"

PrintConfigOf(args, chunks) ==
    [all |-> args.all,
     allow_partial_results |-> NewAllowPartialResults,
     direction |-> NewDirection(args),
     format |-> chunks,
     include_tests |-> NewIncludeTests(args),
     output_format |-> args.output_format,
     prefix |-> NewPrefix(args)]

\* a constructor that falls back to the literal pattern "p" on a bad template
PrintConfig_new_Lenient(args) ==
    LET built == NewFormat(args) IN
    [ok |-> TRUE,
     value |-> PrintConfigOf(args, IF built.ok THEN built.chunks ELSE <<Chunk_Raw(<<"p">>)>>)]

PrintConfig_new(args) ==
    LET built == NewFormat(args) IN
    IF ~built.ok
    THEN [ok |-> FALSE, err |-> MapErr(built.err)]
    ELSE [ok |-> TRUE, value |-> PrintConfigOf(args, built.chunks)]

PrintConfig_default ==
    [all |-> FALSE,
     allow_partial_results |-> FALSE,
     direction |-> "Outgoing",
     format |-> try_build(<<"p">>).chunks,
     include_tests |-> "Yes",
     prefix |-> "Depth",
     output_format |-> OutputFormat_default]

(***************************************************************************)
(* colorize.  A ColoredString is the text with a foreground colour and a   *)
(* bold flag; ColoredString::from and normal() carry neither.              *)
(***************************************************************************)
CrateDetectionStatus ==
    {"NoneDetectedForbidsUnsafe", "NoneDetectedAllowsUnsafe", "UnsafeDetected"}

ColoredString_from(string) == [input |-> string, fgcolor |-> "None", bold |-> FALSE]
green(string) == [input |-> string, fgcolor |-> "Green", bold |-> FALSE]
normal(string) == [input |-> string, fgcolor |-> "None", bold |-> FALSE]
red(string) == [input |-> string, fgcolor |-> "Red", bold |-> FALSE]
bold(cs) == [cs EXCEPT !.bold = TRUE]

\* the markdown arm lost: every format is styled by status
colorize_NoMarkdownArm(crate_detection_status, output_format, string) ==
    CASE crate_detection_status = "NoneDetectedForbidsUnsafe" -> green(string)
      [] crate_detection_status = "NoneDetectedAllowsUnsafe" -> normal(string)
      [] crate_detection_status = "UnsafeDetected" -> bold(red(string))

\* a second format, Json, treated like markdown
colorize_JsonPlain(crate_detection_status, output_format, string) ==
    IF output_format \in {"GitHubMarkdown", "Json"} THEN ColoredString_from(string)
    ELSE colorize_NoMarkdownArm(crate_detection_status, output_format, string)

colorize(crate_detection_status, output_format, string) ==
    CASE output_format = "GitHubMarkdown" -> ColoredString_from(string)
      [] OTHER ->
            CASE crate_detection_status = "NoneDetectedForbidsUnsafe" -> green(string)
              [] crate_detection_status = "NoneDetectedAllowsUnsafe" -> normal(string)
              [] crate_detection_status = "UnsafeDetected" -> bold(red(string))

(***************************************************************************)
(* The arguments drawn.                                                    *)
(***************************************************************************)
TemplateChars == {"p", "-", "{", "}"}

TemplateItems ==
    {<<"{", "p", "}">>, <<"{", "l", "}">>, <<"{", "r", "}">>, <<"{", "x", "}">>,
     <<"-">>, <<"T">>}

T_p == <<"{", "p", "}">>
T_l == <<"{", "l", "}">>
T_r == <<"{", "r", "}">>
T_Text == <<"T", "e", "x", "t">>
T_all == <<"{", "p", "}", "-", "{", "l", "}", "-", "{", "r", "}", "-", "T", "e", "x", "t">>

TestTemplates == {T_p, T_l, T_r, T_Text, T_all}

Templates ==
    SeqsUpTo(TemplateChars, MaxTemplateLen)
      \cup {Concat(is) : is \in SeqsUpTo(TemplateItems, MaxItems)}
      \cup TestTemplates

Args ==
    [all : BOOLEAN, invert : BOOLEAN, format : Templates, include_tests : BOOLEAN,
     prefix_depth : BOOLEAN, no_indent : BOOLEAN, output_format : OutputFormat]

string_value == <<"s", "t", "r", "i", "n", "g", "_", "v", "a", "l", "u", "e">>

Texts == SeqsUpTo({"a", "b"}, MaxTextLen) \cup {string_value}

Calls ==
    [fn : {"from_str"}, s : FromStrInputs]
      \cup [fn : {"new"}, args : Args]
      \cup [fn : {"default"}]
      \cup [fn : {"colorize"}, crate_detection_status : CrateDetectionStatus,
            output_format : OutputFormat, string : Texts]

NoReturn == [none |-> TRUE]

(***************************************************************************)
(* One call: drawn by Init, carried out by the action of its function.     *)
(***************************************************************************)
Init ==
    /\ call \in Calls
    /\ pc = "called"
    /\ ret = NoReturn

FromStr ==
    /\ pc = "called"
    /\ call.fn = "from_str"
    /\ ret' = from_str(call.s)
    /\ pc' = "returned"
    /\ UNCHANGED call

New ==
    /\ pc = "called"
    /\ call.fn = "new"
    /\ ret' = PrintConfig_new(call.args)
    /\ pc' = "returned"
    /\ UNCHANGED call

Default ==
    /\ pc = "called"
    /\ call.fn = "default"
    /\ ret' = PrintConfig_default
    /\ pc' = "returned"
    /\ UNCHANGED call

Colorize ==
    /\ pc = "called"
    /\ call.fn = "colorize"
    /\ ret' = colorize(call.crate_detection_status, call.output_format, call.string)
    /\ pc' = "returned"
    /\ UNCHANGED call

Next == FromStr \/ New \/ Default \/ Colorize

Spec == Init /\ [][Next]_vars

(***************************************************************************)
(* Properties.                                                             *)
(***************************************************************************)
Returned(fn) == pc = "returned" /\ call.fn = fn

PaddedAscii == <<" ", "A", "s", "c", "i", "i", " ">>
LowerAscii == <<"a", "s", "c", "i", "i">>

\* C1: from_str(s) is Ok(v) exactly when s is, character for character, the
\* declared name of the member v of OutputFormat; every other string, a
\* differently-cased or space-padded name included, is OutputFormatParseError.
C1_FromStrExactMatch ==
    Returned("from_str") =>
        /\ \A v \in OutputFormat : (ret = OkFormat(v)) <=> (call.s = VariantName(v))
        /\ (\A v \in OutputFormat : call.s # VariantName(v)) => ret = OutputFormatParseError
        /\ call.s \in {LowerAscii, PaddedAscii} => ret = OutputFormatParseError

C1_Witness ==
    /\ Returned("from_str")
    /\ call.s = LowerAscii
    /\ ret = OutputFormatParseError

\* C2: a PrintConfig built by PrintConfig::new has prefix Depth when
\* prefix_depth is set (no_indent set or not), None when only no_indent is
\* set, and Indent when neither is set, whatever the other flags are.
C2_PrefixPriority ==
    (Returned("new") /\ ret.ok) =>
        LET a == call.args IN
        /\ a.prefix_depth => ret.value.prefix = "Depth"
        /\ (~a.prefix_depth /\ a.no_indent) => ret.value.prefix = "None"
        /\ (~a.prefix_depth /\ ~a.no_indent) => ret.value.prefix = "Indent"

C2_Witness ==
    /\ Returned("new")
    /\ ret.ok
    /\ call.args.prefix_depth
    /\ call.args.no_indent
    /\ ret.value.prefix = "Depth"

\* C3: colorize with output format GitHubMarkdown returns the input text
\* with no colour and not bold, for each of the three detection statuses and
\* every text.
C3_MarkdownUnstyled ==
    (Returned("colorize") /\ call.output_format = "GitHubMarkdown") =>
        ret = [input |-> call.string, fgcolor |-> "None", bold |-> FALSE]

C3_Witness ==
    /\ Returned("colorize")
    /\ call.output_format = "GitHubMarkdown"
    /\ call.crate_detection_status = "UnsafeDetected"
    /\ call.string # <<>>
    /\ ret.fgcolor = "None"
    /\ ~ret.bold

\* C4: for a format other than GitHubMarkdown the style is decided by the
\* detection status alone: green for NoneDetectedForbidsUnsafe, no styling
\* for NoneDetectedAllowsUnsafe, red and bold for UnsafeDetected; the same
\* status and text under any other non-markdown format give the same value.
C4_StyleByStatusOnly ==
    (Returned("colorize") /\ call.output_format # "GitHubMarkdown") =>
        LET st == call.crate_detection_status IN
        /\ ret.input = call.string
        /\ st = "NoneDetectedForbidsUnsafe" => (ret.fgcolor = "Green" /\ ~ret.bold)
        /\ st = "NoneDetectedAllowsUnsafe" => (ret.fgcolor = "None" /\ ~ret.bold)
        /\ st = "UnsafeDetected" => (ret.fgcolor = "Red" /\ ret.bold)
        /\ \A f \in OutputFormat \ {"GitHubMarkdown"} : colorize(st, f, call.string) = ret

C4_Witness ==
    /\ Returned("colorize")
    /\ call.output_format = "Json"
    /\ call.crate_detection_status = "UnsafeDetected"
    /\ ret.fgcolor = "Red"
    /\ ret.bold

\* the template text a chunk stands for
ChunkText(c) ==
    CASE c.kind = "Package" -> <<"{", "p", "}">>
      [] c.kind = "License" -> <<"{", "l", "}">>
      [] c.kind = "Repository" -> <<"{", "r", "}">>
      [] c.kind = "Raw" -> c.text

Unparse(chunks) == Concat([k \in 1..Len(chunks) |-> ChunkText(chunks[k])])

T_all_Pattern ==
    <<Chunk_Package, Chunk_Raw(<<"-">>), Chunk_License, Chunk_Raw(<<"-">>),
      Chunk_Repository, Chunk_Raw(<<"-", "T", "e", "x", "t">>)>>

DelimitedTokens(t) ==
    {SubSeq(t, ij[1] + 1, ij[2] - 1) :
        ij \in {x \in (1..Len(t)) \X (1..Len(t)) :
                   /\ x[1] < x[2]
                   /\ t[x[1]] = "{"
                   /\ t[x[2]] = "}"
                   /\ \A k \in (x[1] + 1)..(x[2] - 1) : t[k] \notin {"{", "}"}}}

KnownTokens == {<<"p">>, <<"l">>, <<"r">>}

UnrecognizedTokens(t) == DelimitedTokens(t) \ KnownTokens

\* every brace of t belongs to a delimited brace-free token
RECURSIVE WellDelimitedFrom(_, _)
WellDelimitedFrom(t, i) ==
    IF i > Len(t) THEN TRUE
    ELSE IF t[i] = "}" THEN FALSE
    ELSE IF t[i] # "{" THEN WellDelimitedFrom(t, i + 1)
    ELSE LET j == NextClose(t, i + 1) IN
         /\ j # 0
         /\ \A k \in (i + 1)..(j - 1) : t[k] # "{"
         /\ WellDelimitedFrom(t, j + 1)

WellDelimited(t) == WellDelimitedFrom(t, 1)

Quoted(tok) == <<"'">> \o tok \o <<"'">>

PrintConfigFields ==
    {"all", "allow_partial_results", "direction", "format", "include_tests", "prefix",
     "output_format"}

\* C7: PrintConfig::new returns an error exactly when compiling args.format
\* fails; the error then has exit code 1 and the pattern error's message and
\* no PrintConfig comes with it; otherwise it returns a PrintConfig with all
\* seven fields, whatever the flags are.
C7_AllOrNothing ==
    Returned("new") =>
        LET built == try_build(call.args.format) IN
        /\ ret.ok <=> built.ok
        /\ ~built.ok =>
              /\ DOMAIN ret = {"ok", "err"}
              /\ ret.err.exit_code = 1
              /\ ret.err.error.message = PatternError_to_string(built.err)
        /\ built.ok =>
              /\ DOMAIN ret = {"ok", "value"}
              /\ DOMAIN ret.value = PrintConfigFields

C7_Witness ==
    /\ Returned("new")
    /\ ~ret.ok
    /\ call.args.all /\ call.args.invert /\ call.args.include_tests
    /\ call.args.prefix_depth /\ call.args.no_indent
    /\ call.args.output_format = "Json"
    /\ ret.err.exit_code = 1
    /\ "value" \notin DOMAIN ret

\* C8: every PrintConfig built by PrintConfig::new has allow_partial_results
\* true, PrintConfig::default() has it false, and so no built PrintConfig
\* equals the default one.
C8_AllowPartialResultsAsymmetry ==
    /\ (Returned("new") /\ ret.ok) =>
          /\ ret.value.allow_partial_results = TRUE
          /\ ret.value # PrintConfig_default
    /\ Returned("default") => ret.allow_partial_results = FALSE

\* the built configuration that differs from the default in that field alone
C8_Witness ==
    /\ Returned("new")
    /\ ret.ok
    /\ ret.value = [PrintConfig_default EXCEPT !.allow_partial_results = TRUE]

\* the argument bundles that differ from a in one field other than invert
OneFlagChanged(a) ==
    {[a EXCEPT !.all = ~a.all], [a EXCEPT !.include_tests = ~a.include_tests],
     [a EXCEPT !.prefix_depth = ~a.prefix_depth], [a EXCEPT !.no_indent = ~a.no_indent]}
      \cup {[a EXCEPT !.output_format = f] : f \in OutputFormat}
      \cup {[a EXCEPT !.format = t] : t \in TestTemplates}

\* C9: the direction of a PrintConfig built by PrintConfig::new is Incoming
\* when invert is set and Outgoing when it is not, and a change of any one
\* other argument (to a template that compiles, for the template) leaves it
\* as it is.
C9_DirectionByInvertAlone ==
    (Returned("new") /\ ret.ok) =>
        /\ call.args.invert => ret.value.direction = "Incoming"
        /\ ~call.args.invert => ret.value.direction = "Outgoing"
        /\ \A b \in OneFlagChanged(call.args) :
              PrintConfig_new(b).ok => PrintConfig_new(b).value.direction = ret.value.direction

C9_Witness ==
    /\ Returned("new")
    /\ ret.ok
    /\ call.args.invert
    /\ ~call.args.include_tests
    /\ ret.value.direction = "Incoming"

\* C10: a PrintConfig built by PrintConfig::new has include_tests Yes when
\* the flag is set and No when it is not, and its fields all and
\* output_format are those of the arguments.
C10_IncludeTestsAndPassThrough ==
    (Returned("new") /\ ret.ok) =>
        /\ call.args.include_tests => ret.value.include_tests = "Yes"
        /\ ~call.args.include_tests => ret.value.include_tests = "No"
        /\ ret.value.all = call.args.all
        /\ ret.value.output_format = call.args.output_format

C10_Witness ==
    /\ Returned("new")
    /\ ret.ok
    /\ ~call.args.include_tests
    /\ ret.value.include_tests = "No"
    /\ call.args.all
    /\ ret.value.all
    /\ call.args.output_format = "Ratio"
    /\ ret.value.output_format = "Ratio"

====
